---------------------------- MODULE Spec2Model ----------------------------
(***************************************************************************)
(* A model of the Azure Function chat API (function_app.py: the chat_api   *)
(* and health_check handlers) and of the az-deploy path of the task runner *)
(* (build.py: main, az_deploy).                                            *)
(*                                                                         *)
(* The host runs the handlers on several workers at once.  Each worker is  *)
(* a slot holding one invocation: its position in the handler (pc), the    *)
(* handler's local variables and, once it has returned, its response.  The *)
(* wall clock (now) is the only thing the handlers read besides their own  *)
(* request.                                                                *)
(***************************************************************************)
EXTENDS Integers, Sequences, FiniteSets, TLC

VARIABLES inv, now, build

vars == <<inv, now, build>>

(***************************************************************************)
(* Bounds of the model.                                                    *)
(***************************************************************************)
\* The wall clock takes the values 0..MaxClock.
MaxClock == 2

\* The workers the host runs handlers on (two invocations may overlap).
Workers == {"w1", "w2"}

(***************************************************************************)
(* JSON values.  A leaf value is a record [t, s, n]: t is the JSON type,   *)
(* s the text of a string, n the number, the truth value (0/1) of a        *)
(* boolean or the length of an array (an array of n ones).                 *)
(***************************************************************************)
JStr(s) == [t |-> "str", s |-> s, n |-> 0]
JNum(n) == [t |-> "num", s |-> "", n |-> n]
JNull == [t |-> "null", s |-> "", n |-> 0]
JBool(b) == [t |-> "bool", s |-> "", n |-> IF b THEN 1 ELSE 0]
JList(n) == [t |-> "list", s |-> "", n |-> n]

\* A local variable that has not been assigned.
Unset == [t |-> "unset", s |-> "", n |-> 0]

\* Marks a key left out of a generated JSON object (never a value of one).
Absent == [t |-> "absent", s |-> "", n |-> 0]

\* The message values requests carry: texts and values of other JSON types.
MessageValues ==
    {JStr(""), JStr("hi"), JStr("Hello, Azure!"), JNum(0), JNum(5), JNull, JList(0)}

\* The user_id values requests carry.
UserIdValues == {JStr(""), JStr("test_user_123"), JStr("anonymous"), JNum(7)}

\* The JSON object {"message": m, "user_id": u}, a key left out when Absent.
ObjOf(m, u) ==
    [k \in ({"message" : x \in {m} \ {Absent}} \cup {"user_id" : x \in {u} \ {Absent}})
        |-> IF k = "message" THEN m ELSE u]

\* A parsed JSON document: an object (its keys in f) or a value of another type.
JObject(fields) == [t |-> "obj", s |-> "", n |-> 0, f |-> fields]
JTop(v) == [t |-> v.t, s |-> v.s, n |-> v.n, f |-> ObjOf(Absent, Absent)]

Objects ==
    {JObject(ObjOf(m, u)) : m \in MessageValues \cup {Absent},
                            u \in UserIdValues \cup {Absent}}

NonObjects == {JTop(JList(1)), JTop(JStr("hi")), JTop(JNull), JTop(JBool(TRUE))}

(***************************************************************************)
(* Request bodies: the bytes of a JSON document (kind "json", val the      *)
(* document they encode), bytes that are no JSON document (kind "bad"),    *)
(* bytes that are not UTF-8 (kind "binary") or no body at all (kind        *)
(* "none", which the host hands over as zero bytes).                       *)
(***************************************************************************)
JsonBody(v) == [kind |-> "json", raw |-> "", val |-> v]
BadBody(raw) == [kind |-> "bad", raw |-> raw, val |-> JTop(JNull)]
BinaryBody == [kind |-> "binary", raw |-> "\\xff", val |-> JTop(JNull)]
NoBody == [kind |-> "none", raw |-> "", val |-> JTop(JNull)]

UnparseableBodies == {BadBody("invalid json{"), BinaryBody, NoBody}

Bodies == {JsonBody(v) : v \in Objects \cup NonObjects} \cup UnparseableBodies

HealthBodies ==
    {NoBody, BadBody("invalid json{"),
     JsonBody(JObject(ObjOf(JStr("hi"), Absent))), JsonBody(JObject(ObjOf(Absent, Absent)))}

(***************************************************************************)
(* Python semantics the handlers rely on.                                  *)
(***************************************************************************)
\* The exception classes that occur, each with its base class.
BaseOf(cls) ==
    CASE cls = "JSONDecodeError" -> "ValueError"
      [] cls = "UnicodeDecodeError" -> "ValueError"
      [] cls = "ValueError" -> "Exception"
      [] cls = "AttributeError" -> "Exception"
      [] cls = "Exception" -> "BaseException"
      [] OTHER -> "object"

\* isinstance(exc, cls) for an exception of class exc.
RECURSIVE IsInstance(_, _)
IsInstance(exc, cls) ==
    IF exc = cls THEN TRUE
    ELSE IF exc \in {"object", "BaseException"} THEN FALSE
    ELSE IsInstance(BaseOf(exc), cls)

\* A variant of Truthy: the test "message is not None" in place of "message".
TruthyIsNotNone(v) == v.t # "null"

\* bool(v): the empty string, zero, None, False and the empty list are false.
Truthy(v) ==
    CASE v.t = "str" -> v.s # ""
      [] v.t = "num" -> v.n # 0
      [] v.t = "bool" -> v.n = 1
      [] v.t = "list" -> v.n > 0
      [] OTHER -> FALSE

\* str(v) of a list of n ones, without the brackets.
RECURSIVE Ones(_)
Ones(n) == IF n = 0 THEN "" ELSE IF n = 1 THEN "1" ELSE "1, " \o Ones(n - 1)

\* format(v) as an f-string renders it.
PyStr(v) ==
    CASE v.t = "str" -> v.s
      [] v.t = "num" -> ToString(v.n)
      [] v.t = "bool" -> IF v.n = 1 THEN "True" ELSE "False"
      [] v.t = "list" -> "[" \o Ones(v.n) \o "]"
      [] OTHER -> "None"

\* A variant of DictGet: d.get(key), the default forgotten.
DictGetNoDefault(d, key, default) == IF key \in DOMAIN d THEN d[key] ELSE JNull

\* d.get(key, default) on a dict d.
DictGet(d, key, default) == IF key \in DOMAIN d THEN d[key] ELSE default

\* datetime.utcnow().isoformat() at clock value t (seconds of one minute).
IsoFormat(t) ==
    "2025-01-01T00:00:" \o (IF t < 10 THEN "0" ELSE "") \o ToString(t)

\* req.get_json(): the decoded document, or the exception decoding raises.
GetJsonResult(body) ==
    CASE body.kind = "json" -> [exc |-> "", val |-> body.val]
      [] body.kind = "binary" -> [exc |-> "UnicodeDecodeError", val |-> JTop(JNull)]
      [] OTHER -> [exc |-> "JSONDecodeError", val |-> JTop(JNull)]

\* A variant of ExceptClause: "except json.JSONDecodeError" in place of
\* "except ValueError".
ExceptClauseJSONDecodeError(exc) ==
    IF IsInstance(exc, "JSONDecodeError") THEN "except_ValueError"
    ELSE IF IsInstance(exc, "Exception") THEN "except_Exception"
    ELSE "escaped"

\* The except clause of chat_api an exception raised in its try block reaches.
ExceptClause(exc) ==
    IF IsInstance(exc, "ValueError") THEN "except_ValueError"
    ELSE IF IsInstance(exc, "Exception") THEN "except_Exception"
    ELSE "escaped"

(***************************************************************************)
(* Responses: func.HttpResponse(json.dumps(body), status_code, mimetype).  *)
(***************************************************************************)
HttpResponse(body, status_code, mimetype) ==
    [status_code |-> status_code, mimetype |-> mimetype, body |-> body]

NoResponse == HttpResponse(ObjOf(Absent, Absent), 0, "")

\* The 400 response to a request without a message.
MessageRequiredResponse(t) ==
    HttpResponse([error |-> JStr("Message field is required"),
                  timestamp |-> JStr(IsoFormat(t))],
                 400, "application/json")

\* A variant of ResponseData: the echo built from the wrong variable.
ResponseDataEchoUser(message, user_id, t) ==
    [status |-> JStr("success"),
     user_id |-> user_id,
     message_received |-> message,
     response |-> JStr("Echo: " \o PyStr(user_id)),
     timestamp |-> JStr(IsoFormat(t))]

\* response_data of a successful request.
ResponseData(message, user_id, t) ==
    [status |-> JStr("success"),
     user_id |-> user_id,
     message_received |-> message,
     response |-> JStr("Echo: " \o PyStr(message)),
     timestamp |-> JStr(IsoFormat(t))]

\* The 200 response.
SuccessResponse(message, user_id, t) ==
    HttpResponse(ResponseData(message, user_id, t), 200, "application/json")

\* The 400 response of the except ValueError clause.
InvalidJsonResponse(t) ==
    HttpResponse([error |-> JStr("Invalid JSON format"),
                  timestamp |-> JStr(IsoFormat(t))],
                 400, "application/json")

\* A variant of InternalErrorResponse: the exception's text in the error.
InternalErrorResponseWithCause(t) ==
    HttpResponse([error |-> JStr("Internal server error: object has no attribute 'get'"),
                  timestamp |-> JStr(IsoFormat(t))],
                 500, "application/json")

\* A variant of InternalErrorResponse: the mimetype argument left out, so
\* that HttpResponse falls back to its default.
InternalErrorResponseNoMimetype(t) ==
    HttpResponse([error |-> JStr("Internal server error"),
                  timestamp |-> JStr(IsoFormat(t))],
                 500, "text/plain")

\* The 500 response of the except Exception clause.
InternalErrorResponse(t) ==
    HttpResponse([error |-> JStr("Internal server error"),
                  timestamp |-> JStr(IsoFormat(t))],
                 500, "application/json")

\* A variant of HealthResponse: the timestamp left out.
HealthResponseNoTimestamp(t) ==
    HttpResponse([status |-> JStr("healthy")], 200, "application/json")

\* The response of health_check.
HealthResponse(t) ==
    HttpResponse([status |-> JStr("healthy"),
                  timestamp |-> JStr(IsoFormat(t))],
                 200, "application/json")

(***************************************************************************)
(* The state of a worker.                                                  *)
(***************************************************************************)
Idle ==
    [pc |-> "idle", handler |-> "", body |-> NoBody, req_body |-> JTop(Unset),
     message |-> Unset, user_id |-> Unset, exc |-> "", response |-> NoResponse]

\* The build script before main() has run.  A flag or an environment variable
\* is <<>> when not given and <<v>> when given with value v.
BuildIdle ==
    [pc |-> "idle", command |-> "", args_function_app |-> <<>>, args_resource_group |-> <<>>,
     env_function_app |-> <<>>, env_resource_group |-> <<>>,
     function_app |-> "", resource_group |-> "",
     stderr |-> <<>>, az_package_ran |-> FALSE, az_deployment_ran |-> FALSE, exit_code |-> -1]

Init ==
    /\ inv = [w \in Workers |-> Idle]
    /\ now = 0
    /\ build = BuildIdle

(***************************************************************************)
(* chat_api, one action per step of the handler.                           *)
(***************************************************************************)
\* The host invokes chat_api(req) on an idle worker; the handler logs the
\* request and enters its try block.
ChatApi(w, body) ==
    /\ inv[w].pc = "idle"
    /\ inv' = [inv EXCEPT ![w] = [Idle EXCEPT !.pc = "get_json",
                                              !.handler = "chat_api",
                                              !.body = body]]
    /\ UNCHANGED <<now, build>>

\* req_body = req.get_json()
GetJson(w) ==
    /\ inv[w].pc = "get_json"
    /\ LET r == GetJsonResult(inv[w].body)
       IN  inv' = [inv EXCEPT ![w] =
                IF r.exc = ""
                THEN [@ EXCEPT !.pc = "extract", !.req_body = r.val]
                ELSE [@ EXCEPT !.pc = ExceptClause(r.exc), !.exc = r.exc]]
    /\ UNCHANGED <<now, build>>

\* message = req_body.get('message', ''); user_id = req_body.get('user_id', 'anonymous')
\* Only a dict has a get method.
Extract(w) ==
    /\ inv[w].pc = "extract"
    /\ inv' = [inv EXCEPT ![w] =
            IF inv[w].req_body.t = "obj"
            THEN [@ EXCEPT !.pc = "validate",
                           !.message = DictGet(inv[w].req_body.f, "message", JStr("")),
                           !.user_id = DictGet(inv[w].req_body.f, "user_id", JStr("anonymous"))]
            ELSE [@ EXCEPT !.pc = ExceptClause("AttributeError"), !.exc = "AttributeError"]]
    /\ UNCHANGED <<now, build>>

\* if not message: return the 400 response
MessageRequired(w) ==
    /\ inv[w].pc = "validate"
    /\ ~Truthy(inv[w].message)
    /\ inv' = [inv EXCEPT ![w] = [@ EXCEPT !.pc = "done",
                                           !.response = MessageRequiredResponse(now)]]
    /\ UNCHANGED <<now, build>>

\* A variant of Success: user_id kept in a module-level variable that every
\* invocation assigns, so that the response carries the user_id of whichever
\* invocation assigned it last (here: another one that has assigned it).
SuccessSharedUserId(w) ==
    /\ inv[w].pc = "validate"
    /\ Truthy(inv[w].message)
    /\ \E v \in Workers :
         /\ inv[v].user_id # Unset
         /\ inv' = [inv EXCEPT ![w] =
                 [@ EXCEPT !.pc = "done",
                           !.response = SuccessResponse(inv[w].message, inv[v].user_id, now)]]
    /\ UNCHANGED <<now, build>>

\* otherwise build response_data and return the 200 response
Success(w) ==
    /\ inv[w].pc = "validate"
    /\ Truthy(inv[w].message)
    /\ inv' = [inv EXCEPT ![w] =
            [@ EXCEPT !.pc = "done",
                      !.response = SuccessResponse(inv[w].message, inv[w].user_id, now)]]
    /\ UNCHANGED <<now, build>>

\* except ValueError
ExceptValueError(w) ==
    /\ inv[w].pc = "except_ValueError"
    /\ inv' = [inv EXCEPT ![w] = [@ EXCEPT !.pc = "done",
                                           !.response = InvalidJsonResponse(now)]]
    /\ UNCHANGED <<now, build>>

\* except Exception
ExceptException(w) ==
    /\ inv[w].pc = "except_Exception"
    /\ inv' = [inv EXCEPT ![w] = [@ EXCEPT !.pc = "done",
                                           !.response = InternalErrorResponse(now)]]
    /\ UNCHANGED <<now, build>>

(***************************************************************************)
(* health_check: one step, it reads nothing of the request.                *)
(***************************************************************************)
HealthCheck(w, body) ==
    /\ inv[w].pc = "idle"
    /\ inv' = [inv EXCEPT ![w] = [Idle EXCEPT !.pc = "done",
                                              !.handler = "health_check",
                                              !.body = body,
                                              !.response = HealthResponse(now)]]
    /\ UNCHANGED <<now, build>>

(***************************************************************************)
(* The host.                                                               *)
(***************************************************************************)
\* The host sends a finished invocation's response and frees the worker.
Return(w) ==
    /\ inv[w].pc = "done"
    /\ inv' = [inv EXCEPT ![w] = Idle]
    /\ UNCHANGED <<now, build>>

\* Time passes.
Tick ==
    /\ now < MaxClock
    /\ now' = now + 1
    /\ UNCHANGED <<inv, build>>

Next ==
    \/ \E w \in Workers, body \in Bodies : ChatApi(w, body)
    \/ \E w \in Workers : GetJson(w)
    \/ \E w \in Workers : Extract(w)
    \/ \E w \in Workers : MessageRequired(w)
    \/ \E w \in Workers : Success(w)
    \/ \E w \in Workers : ExceptValueError(w)
    \/ \E w \in Workers : ExceptException(w)
    \/ \E w \in Workers, body \in HealthBodies : HealthCheck(w, body)
    \/ \E w \in Workers : Return(w)
    \/ Tick

Spec == Init /\ [][Next]_vars

(***************************************************************************)
(* build.py: main() and the az-deploy command.                             *)
(***************************************************************************)
\* The commands given on the command line ("" is no command at all).
Commands == {"", "help", "az-package", "az-deploy", "bogus"}

\* The entries of main's commands table that the model runs.
CommandTable == {"help", "az-package"}

FunctionAppValues == {<<>>, <<"">>, <<"your-function-app-name">>, <<"my-app">>}
ResourceGroupValues == {<<>>, <<"">>, <<"your-resource-group">>, <<"my-rg">>}

\* The exit codes of a failing subprocess.
FailureCodes == {1, 2}

\* args.x or os.environ.get(NAME, default): a flag that is not given (None)
\* or empty is false, and the environment's value, if set, is taken as it is.
FlagOrEnv(flag, env, default) ==
    IF flag # <<>> /\ flag[1] # "" THEN flag[1]
    ELSE IF env # <<>> THEN env[1]
    ELSE default

\* A variant of NotSet: only the placeholder is refused.
NotSetPlaceholderOnly(name, placeholder) == name = placeholder

\* not name or name == placeholder
NotSet(name, placeholder) == name = "" \/ name = placeholder

\* sys.exit(code), after printing the error messages errs.
Exit(code, errs) ==
    [build EXCEPT !.pc = "exit", !.exit_code = code, !.stderr = build.stderr \o errs]

\* main(): parse the arguments and dispatch on the command.
Main(command, fa, rg, efa, erg) ==
    /\ build.pc = "idle"
    /\ LET b == [build EXCEPT !.command = command,
                              !.args_function_app = fa, !.args_resource_group = rg,
                              !.env_function_app = efa, !.env_resource_group = erg]
       IN  build' =
             IF command = "" \/ command = "help"
             THEN [b EXCEPT !.pc = "exit", !.exit_code = 0]
             ELSE IF command = "az-deploy"
             THEN [b EXCEPT !.pc = "az_deploy",
                            !.function_app = FlagOrEnv(fa, efa, "your-function-app-name"),
                            !.resource_group = FlagOrEnv(rg, erg, "your-resource-group")]
             ELSE IF command \in CommandTable
             THEN [b EXCEPT !.pc = "az_package"]
             ELSE [b EXCEPT !.pc = "exit", !.exit_code = 1,
                            !.stderr = <<"Unknown command: " \o command>>]
    /\ UNCHANGED <<inv, now>>

\* az_deploy: validate the function app name.
ValidateFunctionApp ==
    /\ build.pc = "az_deploy"
    /\ build' =
         IF NotSet(build.function_app, "your-function-app-name")
         THEN Exit(1, <<"FUNCTION_APP_NAME not set">>)
         ELSE [build EXCEPT !.pc = "validate_resource_group"]
    /\ UNCHANGED <<inv, now>>

\* az_deploy: validate the resource group.
ValidateResourceGroup ==
    /\ build.pc = "validate_resource_group"
    /\ build' =
         IF NotSet(build.resource_group, "your-resource-group")
         THEN Exit(1, <<"RESOURCE_GROUP not set">>)
         ELSE [build EXCEPT !.pc = "az_package"]
    /\ UNCHANGED <<inv, now>>

\* az_package(): its pip install may fail, and run_command then exits with
\* the subprocess's code; otherwise the zip is written.
AzPackage(rc) ==
    /\ build.pc = "az_package"
    /\ LET b == [build EXCEPT !.az_package_ran = TRUE]
       IN  build' =
             IF rc # 0
             THEN [b EXCEPT !.pc = "exit", !.exit_code = rc,
                            !.stderr = <<"Command failed with exit code " \o ToString(rc)>>]
             ELSE IF build.command = "az-deploy"
             THEN [b EXCEPT !.pc = "deploy"]
             ELSE [b EXCEPT !.pc = "exit", !.exit_code = 0]
    /\ UNCHANGED <<inv, now>>

\* az_deploy: az functionapp deployment source config-zip ...
AzDeployment(rc) ==
    /\ build.pc = "deploy"
    /\ LET b == [build EXCEPT !.az_deployment_ran = TRUE]
       IN  build' =
             IF rc # 0
             THEN [b EXCEPT !.pc = "exit", !.exit_code = rc,
                            !.stderr = <<"Command failed with exit code " \o ToString(rc)>>]
             ELSE [b EXCEPT !.pc = "exit", !.exit_code = 0]
    /\ UNCHANGED <<inv, now>>

NextBuild ==
    \/ \E command \in Commands, fa, efa \in FunctionAppValues,
          rg, erg \in ResourceGroupValues : Main(command, fa, rg, efa, erg)
    \/ ValidateFunctionApp
    \/ ValidateResourceGroup
    \/ \E rc \in {0} \cup FailureCodes : AzPackage(rc)
    \/ \E rc \in {0} \cup FailureCodes : AzDeployment(rc)

SpecBuild == Init /\ [][NextBuild]_vars

(***************************************************************************)
(* Vocabulary of the properties: what was sent and what came back.         *)
(***************************************************************************)
\* Worker w runs or has run chat_api.
IsChat(w) == inv[w].handler = "chat_api"

\* Worker w's handler has returned.
Returned(w) == inv[w].pc = "done"

\* The request of worker w has a JSON object as its body.
HasObjectBody(w) == inv[w].body.kind = "json" /\ inv[w].body.val.t = "obj"

\* The value the request's JSON object gives key k, Absent without the key.
Sent(w, k) == IF k \in DOMAIN inv[w].body.val.f THEN inv[w].body.val.f[k] ELSE Absent

\* Field k of the response body of worker w, Absent without the field.
Field(w, k) ==
    IF k \in DOMAIN inv[w].response.body THEN inv[w].response.body[k] ELSE Absent

\* The response body of worker w is an ErrorResponse with this error text.
IsErrorResponse(w, text) ==
    /\ DOMAIN inv[w].response.body = {"error", "timestamp"}
    /\ Field(w, "error") = JStr(text)

\* The response body of worker w is a ChatResponse.
IsChatResponse(w) ==
    /\ DOMAIN inv[w].response.body =
          {"status", "user_id", "message_received", "response", "timestamp"}
    /\ Field(w, "status") = JStr("success")

\* The positions of chat_api at which an exception is being handled or escaped.
ExceptionPcs == {"except_ValueError", "except_Exception", "escaped"}

\* The request carries a non-empty text as its message.
SentNonEmptyText(w) ==
    HasObjectBody(w) /\ Sent(w, "message").t = "str" /\ Sent(w, "message").s # ""

(***************************************************************************)
(* C1.  For every non-empty string m and every string u, chat_api called   *)
(* with the JSON object {"message": m, "user_id": u} returns 200 with      *)
(* status "success", response "Echo: " + m, message_received m and         *)
(* user_id u (and raises nothing on the way).                              *)
(***************************************************************************)
C1_EchoesMessageAndUser ==
    \A w \in Workers :
        (IsChat(w) /\ SentNonEmptyText(w) /\ Sent(w, "user_id").t = "str")
        => /\ inv[w].pc \notin ExceptionPcs
           /\ Returned(w) =>
                /\ inv[w].response.status_code = 200
                /\ Field(w, "status") = JStr("success")
                /\ Field(w, "response") = JStr("Echo: " \o Sent(w, "message").s)
                /\ Field(w, "message_received") = JStr(Sent(w, "message").s)
                /\ Field(w, "user_id") = JStr(Sent(w, "user_id").s)

C1_Witness ==
    \E w \in Workers :
        /\ IsChat(w) /\ Returned(w) /\ HasObjectBody(w)
        /\ Sent(w, "message") = JStr("Hello, Azure!")
        /\ Sent(w, "user_id") = JStr("test_user_123")
        /\ Field(w, "response") = JStr("Echo: Hello, Azure!")

(***************************************************************************)
(* C2.  chat_api called with a JSON object in which message is absent or   *)
(* the empty string returns 400 with error "Message field is required",    *)
(* whatever user_id is, and never a success body.                          *)
(***************************************************************************)
C2_MessageRequired ==
    \A w \in Workers :
        (IsChat(w) /\ HasObjectBody(w) /\ Sent(w, "message") \in {Absent, JStr("")})
        => /\ inv[w].pc \notin ExceptionPcs
           /\ Returned(w) =>
                /\ inv[w].response.status_code = 400
                /\ IsErrorResponse(w, "Message field is required")
                /\ ~IsChatResponse(w)

C2_Witness ==
    \E w1, w2 \in Workers :
        /\ IsChat(w1) /\ Returned(w1) /\ HasObjectBody(w1)
        /\ Sent(w1, "message") = Absent /\ Sent(w1, "user_id") = JStr("test_user_123")
        /\ IsChat(w2) /\ Returned(w2) /\ HasObjectBody(w2)
        /\ Sent(w2, "message") = JStr("") /\ Sent(w2, "user_id") = Absent
        /\ inv[w1].response.status_code = 400 /\ inv[w2].response.status_code = 400

(***************************************************************************)
(* C3.  chat_api called with a body that cannot be parsed as JSON returns  *)
(* 400 with error "Invalid JSON format"; message and user_id are never     *)
(* extracted and no success response is built.                             *)
(***************************************************************************)
C3_InvalidJson ==
    \A w \in Workers :
        (IsChat(w) /\ inv[w].body.kind # "json")
        => /\ inv[w].pc \in {"get_json", "except_ValueError", "done"}
           /\ inv[w].req_body = JTop(Unset)
           /\ inv[w].message = Unset
           /\ inv[w].user_id = Unset
           /\ Returned(w) =>
                /\ inv[w].response.status_code = 400
                /\ IsErrorResponse(w, "Invalid JSON format")
                /\ ~IsChatResponse(w)

C3_Witness ==
    \E w1, w2 \in Workers :
        /\ IsChat(w1) /\ Returned(w1) /\ inv[w1].body = BadBody("invalid json{")
        /\ IsChat(w2) /\ Returned(w2) /\ inv[w2].body = BinaryBody
        /\ IsErrorResponse(w1, "Invalid JSON format")
        /\ IsErrorResponse(w2, "Invalid JSON format")

(***************************************************************************)
(* C4.  chat_api called with a JSON object that has a non-empty message    *)
(* and no user_id key returns 200 with status "success" and user_id        *)
(* "anonymous".                                                            *)
(***************************************************************************)
C4_AnonymousUser ==
    \A w \in Workers :
        (IsChat(w) /\ SentNonEmptyText(w) /\ Sent(w, "user_id") = Absent)
        => /\ inv[w].pc \notin ExceptionPcs
           /\ Returned(w) =>
                /\ inv[w].response.status_code = 200
                /\ Field(w, "status") = JStr("success")
                /\ Field(w, "user_id") = JStr("anonymous")

C4_Witness ==
    \E w \in Workers :
        /\ IsChat(w) /\ Returned(w) /\ HasObjectBody(w)
        /\ Sent(w, "message") = JStr("hi") /\ Sent(w, "user_id") = Absent
        /\ Field(w, "user_id") = JStr("anonymous")

(***************************************************************************)
(* C5.  Every POST /chat request, whatever its body, is answered with 200  *)
(* carrying a ChatResponse or 400 carrying an ErrorResponse, and with no   *)
(* other status code.                                                      *)
(***************************************************************************)
C5_Only200Or400 ==
    \A w \in Workers :
        (IsChat(w) /\ Returned(w))
        => \/ inv[w].response.status_code = 200 /\ IsChatResponse(w)
           \/ /\ inv[w].response.status_code = 400
              /\ DOMAIN inv[w].response.body = {"error", "timestamp"}

(***************************************************************************)
(* C6.  chat_api lets no exception escape to the host, and any exception   *)
(* raised in it that is not a ValueError is answered with 500 whose body   *)
(* is the error "Internal server error" and a timestamp, nothing else.     *)
(***************************************************************************)
C6_InternalServerError ==
    \A w \in Workers :
        /\ inv[w].pc # "escaped"
        /\ (IsChat(w) /\ inv[w].exc # "" /\ ~IsInstance(inv[w].exc, "ValueError"))
           => /\ inv[w].pc \in {"except_Exception", "done"}
              /\ Returned(w) =>
                   /\ inv[w].response.status_code = 500
                   /\ IsErrorResponse(w, "Internal server error")

C6_Witness ==
    \E w \in Workers :
        /\ IsChat(w) /\ Returned(w) /\ inv[w].exc = "AttributeError"
        /\ inv[w].response.status_code = 500

(***************************************************************************)
(* C7.  health_check returns 200 with status "healthy" and a timestamp     *)
(* for every request, whatever its body and whatever ran before or runs    *)
(* beside it; it has no error outcome.                                     *)
(***************************************************************************)
C7_AlwaysHealthy ==
    \A w \in Workers :
        inv[w].handler = "health_check"
        => /\ Returned(w)
           /\ inv[w].exc = ""
           /\ inv[w].response.status_code = 200
           /\ Field(w, "status") = JStr("healthy")
           /\ "timestamp" \in DOMAIN inv[w].response.body
           /\ "error" \notin DOMAIN inv[w].response.body

C7_Witness ==
    \E w1, w2 \in Workers :
        /\ inv[w1].handler = "health_check" /\ inv[w1].body = BadBody("invalid json{")
        /\ Field(w1, "status") = JStr("healthy")
        /\ IsChat(w2) /\ Returned(w2) /\ inv[w2].response.status_code = 500

(***************************************************************************)
(* C8.  Handlers are functions of their input: two invocations of the same *)
(* handler with the same body get the same status code and the same body   *)
(* fields other than timestamp, whatever ran before or runs beside them.   *)
(***************************************************************************)
WithoutTimestamp(b) == [k \in DOMAIN b \ {"timestamp"} |-> b[k]]

C8_SameBodySameResponse ==
    \A w1, w2 \in Workers :
        (/\ Returned(w1) /\ Returned(w2)
         /\ inv[w1].handler = inv[w2].handler
         /\ inv[w1].body = inv[w2].body)
        => /\ inv[w1].response.status_code = inv[w2].response.status_code
           /\ WithoutTimestamp(inv[w1].response.body) = WithoutTimestamp(inv[w2].response.body)

C8_Witness ==
    \E w1, w2 \in Workers :
        /\ w1 # w2
        /\ IsChat(w1) /\ IsChat(w2) /\ Returned(w1) /\ Returned(w2)
        /\ inv[w1].body = inv[w2].body
        /\ inv[w1].response.status_code = 200
        /\ Field(w1, "timestamp") # Field(w2, "timestamp")

(***************************************************************************)
(* C9.  az-deploy, when the function app name or the resource group (the   *)
(* flag if given a value, else the environment variable, else the          *)
(* placeholder) is empty or the placeholder, exits with code 1 after       *)
(* printing an error, before az_package or the az deployment has run.      *)
(***************************************************************************)
\* The name the command line and the environment give.
NameGiven(flag, env, placeholder) ==
    IF flag \notin {<<>>, <<"">>} THEN flag[1]
    ELSE IF env = <<>> THEN placeholder ELSE env[1]

\* The name is missing: empty or left at its placeholder.
Missing(flag, env, placeholder) ==
    NameGiven(flag, env, placeholder) \in {"", placeholder}

C9_DeployNeedsNames ==
    (/\ build.command = "az-deploy"
     /\ \/ Missing(build.args_function_app, build.env_function_app, "your-function-app-name")
        \/ Missing(build.args_resource_group, build.env_resource_group, "your-resource-group"))
    => /\ ~build.az_package_ran
       /\ ~build.az_deployment_ran
       /\ build.pc \in {"az_deploy", "validate_resource_group", "exit"}
       /\ build.pc = "exit" =>
            /\ build.exit_code = 1
            /\ build.stderr \in {<<"FUNCTION_APP_NAME not set">>, <<"RESOURCE_GROUP not set">>}

C9_Witness ==
    /\ build.command = "az-deploy"
    /\ build.args_function_app = <<"my-app">>
    /\ build.args_resource_group = <<>>
    /\ build.env_resource_group = <<"">>
    /\ build.pc = "exit"
    /\ build.exit_code = 1

(***************************************************************************)
(* C10.  Every response of chat_api and health_check, on every path (200,  *)
(* 400 and 500), has content type application/json.                        *)
(***************************************************************************)
C10_AlwaysJson ==
    \A w \in Workers :
        Returned(w)
        => /\ inv[w].response.status_code \in {200, 400, 500}
           /\ inv[w].response.mimetype = "application/json"

C10_Witness ==
    \E w1, w2 \in Workers :
        /\ Returned(w1) /\ inv[w1].response.status_code = 500
        /\ Returned(w2) /\ inv[w2].handler = "health_check"
        /\ inv[w1].response.mimetype = "application/json"
        /\ inv[w2].response.mimetype = "application/json"

(***************************************************************************)
(* C11.  chat_api returns 200 only when the body is a JSON object whose    *)
(* message is a non-empty text; every body that parses as JSON but has no  *)
(* such message (a message of another JSON type and a top-level value that *)
(* is not an object included) is answered with 400 and the error "Message  *)
(* field is required".                                                     *)
(***************************************************************************)
C11_TextMessageOrRequired ==
    \A w \in Workers :
        (IsChat(w) /\ Returned(w))
        => /\ inv[w].response.status_code = 200 => SentNonEmptyText(w)
           /\ (inv[w].body.kind = "json" /\ ~SentNonEmptyText(w))
              => /\ inv[w].response.status_code = 400
                 /\ IsErrorResponse(w, "Message field is required")

=============================================================================
